---- MODULE Spec2Model ----
(***************************************************************************)
(* A model of enumerate-by-divisor.py: the divisor frequency analysis, the *)
(* candidate filter, the positional coverage check, the row/box constraint *)
(* model and the backtracking grid assembler, with main's loop over the    *)
(* divisors.                                                               *)
(*                                                                         *)
(* A digit string is a sequence of digits 0..9 (TLA+ sequences are         *)
(* 1-based: the code's num[pos] is num[pos + 1] here).  Python's None is   *)
(* the empty sequence where a function returns "a value or None": a row    *)
(* index r is <<r>>, a grid g is <<g>>.                                    *)
(***************************************************************************)
EXTENDS Integers, Sequences, FiniteSets, TLC

VARIABLES
    symbols,              \* main: the alphabet, a set of digits
    numbers,              \* main: the candidate integers, in generation order
    divisor_counts,       \* build_divisor_counts: the defaultdict, key -> count
    num_idx,              \* build_divisor_counts: how many numbers are counted
    sorted_items,         \* main: sorted(divisor_counts.items(), reverse=True)
    item_idx,             \* main: position of the for loop in sorted_items
    divisible_numbers,    \* analyze_divisor / try_build_sudoku_grid: the strings
    valid_numbers_by_row, \* try_build_sudoku_grid: row -> eligible strings
    grid,                 \* backtrack: the partial grid
    used_numbers,         \* backtrack: the strings placed in the grid
    column_sets,          \* try_build_sudoku_grid: digits seen in each column
    box_sets,             \* try_build_sudoku_grid: digits seen in each box
    frames,               \* backtrack: the for loop's position, per active call
    result,               \* the last try_build_sudoku_grid's return value
    pc,                   \* where the program is
    analysed,             \* history: the divisors handed to analyze_divisor
    saved,                \* history: the search state before each pending commit
    undone,               \* history: the snapshot the latest undo must restore
    run,                  \* which execution of main this is (1 or 2)
    first_run             \* the outcome of the first execution

vars == <<symbols, numbers, divisor_counts, num_idx, sorted_items, item_idx,
          divisible_numbers, valid_numbers_by_row, grid, used_numbers,
          column_sets, box_sets, frames, result, pc, analysed, saved, undone,
          run, first_run>>

-----------------------------------------------------------------------------
(* Bounds of the model.                                                    *)

\* How many entries of PoolSeq the permutation supplier produces.
PoolSize == 21

\* How many of the iteration orders of the alphabet set are explored.
NOrders == 2

\* build_divisor_counts alone is also run on every list of at most MaxLen
\* integers of 1..MaxN.
MaxLen == 3

MaxN == 12

-----------------------------------------------------------------------------
(* The inputs.                                                             *)

\* parse_args' choices are 1, 3, 4, 6, 7, 8, 9; the runs modelled exclude 4.
ExcludedChoices == {4}

\* The permutations of the alphabet the model's permutation supplier yields
\* (the program yields all 9! of them).  Entries 1-9 are the rows of a valid
\* grid, all multiples of 12345679.  Entries 10-11 and 12-13 are rows 0, 1 and
\* rows 3, 4 of that grid with columns 0, 3, 6 exchanged: they make other valid
\* grids, of multiples of 37.  Entry 14 is row 2 with its last box segment
\* permuted.  Entries 15-22 match the positional clue of no row, of one row
\* or of two rows, and pass or fail the box checks of those rows and of row 4.
PoolSeq ==
    << 395061728, 61728395, 728395061, 950617283, 283950617,
       617283950, 839506172, 506172839, 172839506,
       95761328, 361028795, 250917683, 983650217,
       728395106, 193860527, 271938605, 13276895, 120375689,
       178329506, 12839657, 357289061, 52719386 >>

\* Iteration orders of a set of digit characters (the order depends on the
\* process's string hash seed); the order of a set is the order here of its
\* members.
SymbolOrders ==
    << <<0, 1, 2, 3, 4, 5, 6, 7, 8, 9>>,
       <<9, 8, 7, 6, 5, 4, 3, 2, 1, 0>>,
       <<1, 0, 2, 3, 5, 4, 6, 7, 9, 8>> >>

Range(s) == {s[i] : i \in 1..Len(s)}

RECURSIVE SetAsSeq(_)
SetAsSeq(S) ==
    IF S = {} THEN <<>>
    ELSE LET x == CHOOSE y \in S : TRUE IN <<x>> \o SetAsSeq(S \ {x})

-----------------------------------------------------------------------------
(* generate_symbols, generate_permutations, find_numbers_with_divisor.     *)

generate_symbols(excluded_digit) == (0..9) \ {excluded_digit}

RECURSIVE DigitsOf(_)
DigitsOf(n) == IF n < 10 THEN <<n>> ELSE Append(DigitsOf(n \div 10), n % 10)

RECURSIVE Zeros(_)
Zeros(k) == IF k <= 0 THEN <<>> ELSE <<0>> \o Zeros(k - 1)

\* f"{num:09}": the decimal digits, padded with zeros on the left to width 9.
Format09(num) == LET d == DigitsOf(num) IN Zeros(9 - Len(d)) \o d

\* int(''.join(p))
RECURSIVE IntOf(_)
IntOf(s) == IF s = <<>> THEN 0
            ELSE 10 * IntOf(SubSeq(s, 1, Len(s) - 1)) + s[Len(s)]

IsPermutationOf(s, syms) == Len(s) = Cardinality(syms) /\ Range(s) = syms

\* The place of digit d in the iteration order.
RankIn(order, d) == CHOOSE i \in 1..Len(order) : order[i] = d

\* itertools.permutations yields tuples in lexicographic order of positions of
\* the input: p comes before q when, at the first place they differ, p's
\* symbol comes first in the iteration order.
PermBefore(order, p, q) ==
    \E i \in 1..9 :
        /\ \A j \in 1..(i - 1) : p[j] = q[j]
        /\ RankIn(order, p[i]) < RankIn(order, q[i])

\* The permutations of the alphabet, in the order generated from iteration
\* order `order`, as integers; of these the model keeps those in `pool`.
generate_permutations(order, syms, pool) ==
    LET perms == {Format09(n) : n \in pool}
        kept  == {p \in perms : IsPermutationOf(p, syms)}
        inOrder == SortSeq(SetAsSeq(kept), LAMBDA p, q : PermBefore(order, p, q))
    IN [i \in 1..Len(inOrder) |-> IntOf(inOrder[i])]

find_numbers_with_divisor(nums, divisor) ==
    LET keep(n) == n % divisor = 0
        sel == SelectSeq(nums, keep)
    IN [i \in 1..Len(sel) |-> Format09(sel[i])]

-----------------------------------------------------------------------------
(* count_divisors, build_divisor_counts.                                   *)

RECURSIVE IsqrtBetween(_, _, _)
IsqrtBetween(n, lo, hi) ==
    IF lo = hi THEN lo
    ELSE LET mid == (lo + hi + 1) \div 2
         IN IF mid * mid <= n THEN IsqrtBetween(n, mid, hi)
                              ELSE IsqrtBetween(n, lo, mid - 1)

\* int(n ** 0.5) for 0 <= n < 2^31
Isqrt(n) == IsqrtBetween(n, 0, IF n < 46340 THEN n ELSE 46340)

\* The trial divisors i of range(1, int(n ** 0.5) + 1) with n % i == 0.
TrialDivisors(n) == {i \in 1..Isqrt(n) : n % i = 0}

\* The loop without its test for a perfect square's root.
IncrementTwice(n, trial, k) ==
    (IF k \in trial THEN 1 ELSE 0)
    + (IF n % k = 0 /\ (n \div k) \in trial THEN 1 ELSE 0)

\* What the loop adds to key k: one for the trial divisor k, and one for
\* every trial divisor i whose cofactor n // i is k and differs from i.
Increment(n, trial, k) ==
    (IF k \in trial THEN 1 ELSE 0)
    + (IF n % k = 0 /\ (n \div k) \in trial /\ (n \div k) # k THEN 1 ELSE 0)

\* divisor_counts after count_divisors(n, divisor_counts); a defaultdict(int)
\* gains a key when the key is first incremented.
count_divisors(n, counts) ==
    LET trial == TrialDivisors(n)
        keys  == trial \cup {n \div i : i \in trial}
    IN [k \in (DOMAIN counts) \cup keys |->
          (IF k \in DOMAIN counts THEN counts[k] ELSE 0)
          + (IF k \in keys THEN Increment(n, trial, k) ELSE 0)]

EmptyDict == [k \in {} |-> 0]

-----------------------------------------------------------------------------
(* check_digit_positions and analyze_divisor's test on its result.         *)

\* The position sets without the digit 0.
check_digit_positions_nonzero(nums, syms) ==
    [pos \in 0..8 |->
        {nums[i][pos + 1] : i \in {j \in 1..Len(nums) :
                                      /\ nums[j][pos + 1] \in syms
                                      /\ nums[j][pos + 1] # 0}}]

\* position_digits: for each position 0..8, the digits of `syms` found there.
check_digit_positions(nums, syms) ==
    [pos \in 0..8 |->
        {nums[i][pos + 1] : i \in {j \in 1..Len(nums) : nums[j][pos + 1] \in syms}}]

all_positions_complete(nums, syms) ==
    LET position_digits == check_digit_positions(nums, syms)
    IN \A pos \in 0..8 : Cardinality(position_digits[pos]) = Cardinality(syms)

-----------------------------------------------------------------------------
(* The constraint model.                                                   *)

\* get_row_constraints: row -> <<position, digit>>, or <<>> for None.
get_row_constraints ==
    [row \in 0..8 |->
        CASE row = 0 -> <<7, 2>>
          [] row = 1 -> <<8, 5>>
          [] row = 2 -> <<1, 2>>
          [] row = 3 -> <<2, 0>>
          [] row = 4 -> <<>>
          [] row = 5 -> <<3, 2>>
          [] row = 6 -> <<4, 0>>
          [] row = 7 -> <<5, 2>>
          [] row = 8 -> <<6, 5>>]

\* get_box_constraints: box -> the <<row, col, digit>> clues that fall in it,
\* in row order.
get_box_constraints ==
    LET row_constraints == get_row_constraints
        clue(row) == <<row, row_constraints[row][1], row_constraints[row][2]>>
        inBox(box, row) ==
            /\ row_constraints[row] # <<>>
            /\ (row \div 3) * 3 + (row_constraints[row][1] \div 3) = box
    IN [box_num \in 0..8 |->
          LET rows == SelectSeq(<<0, 1, 2, 3, 4, 5, 6, 7, 8>>,
                                LAMBDA row : inBox(box_num, row))
          IN [i \in 1..Len(rows) |-> clue(rows[i])]]

check_box_constraints(num, row) ==
    LET box_constraints == get_box_constraints
        box_row == row \div 3
    IN \A box_col \in 0..2 :
          LET box_num == box_row * 3 + box_col
              box_start_col == box_col * 3
              box_section == {num[c + 1] : c \in box_start_col..(box_start_col + 2)}
          IN \A i \in 1..Len(box_constraints[box_num]) :
                LET r == box_constraints[box_num][i][1]
                    digit == box_constraints[box_num][i][3]
                IN ~(r # row /\ digit \in box_section)

\* Whether num has row_idx's clue digit at the clue's position.
MatchesClue(num, constraints, row_idx) ==
    /\ constraints[row_idx] # <<>>
    /\ num[constraints[row_idx][1] + 1] = constraints[row_idx][2]

\* <<row>>, or <<>> for None.
find_valid_row_for_number(num, constraints) ==
    LET matching_rows ==
            SelectSeq(<<0, 1, 2, 3, 4, 5, 6, 7, 8>>,
                      LAMBDA row_idx : /\ MatchesClue(num, constraints, row_idx)
                                       /\ check_box_constraints(num, row_idx))
    IN IF Len(matching_rows) > 1 THEN <<>>
       ELSE IF Len(matching_rows) = 1 THEN <<matching_rows[1]>>
       ELSE IF check_box_constraints(num, 4) THEN <<4>>
       ELSE <<>>

\* A categorisation that puts in row 4's list every string that passes row
\* 4's box check, and in a clued row's list every string matching its clue.
categorize_by_clue_only(nums) ==
    LET constraints == get_row_constraints
    IN [row \in 0..8 |->
          SelectSeq(nums, LAMBDA num :
              IF row = 4 THEN check_box_constraints(num, 4)
              ELSE MatchesClue(num, constraints, row))]

\* valid_numbers_by_row, read as the code reads it: a row with no entry
\* reads as the empty list.
categorize_numbers_by_row(nums) ==
    LET constraints == get_row_constraints
    IN [row \in 0..8 |->
          SelectSeq(nums, LAMBDA num :
              find_valid_row_for_number(num, constraints) = <<row>>)]

-----------------------------------------------------------------------------
(* try_build_sudoku_grid and backtrack.                                    *)

\* The box index without the factor 3.
box_index_flat(row_idx, col) == (row_idx \div 3) + (col \div 3)

box_index(row_idx, col) == (row_idx \div 3) * 3 + (col \div 3)

\* The test without its column part.
is_valid_boxes_only(num, row_idx, cols, boxes) ==
    \A col \in 0..8 : num[col + 1] \notin boxes[box_index(row_idx, col)]

\* The for loop over enumerate(num) leaves is_valid True: no digit of num is
\* in its column's set or in its box's set.
is_valid(num, row_idx, cols, boxes) ==
    \A col \in 0..8 :
        /\ num[col + 1] \notin cols[col]
        /\ num[col + 1] \notin boxes[box_index(row_idx, col)]

add_to_columns(num, cols) == [col \in 0..8 |-> cols[col] \cup {num[col + 1]}]

add_to_boxes(num, row_idx, boxes) ==
    [b \in 0..8 |->
        boxes[b] \cup {num[col + 1] : col \in {c \in 0..8 : box_index(row_idx, c) = b}}]

remove_from_columns(num, cols) == [col \in 0..8 |-> cols[col] \ {num[col + 1]}]

\* The removal that stops before column 8.
remove_from_boxes_but_last(num, row_idx, boxes) ==
    [b \in 0..8 |->
        boxes[b] \ {num[col + 1] : col \in {c \in 0..7 : box_index(row_idx, c) = b}}]

remove_from_boxes(num, row_idx, boxes) ==
    [b \in 0..8 |->
        boxes[b] \ {num[col + 1] : col \in {c \in 0..8 : box_index(row_idx, c) = b}}]

EmptySets == [i \in 0..8 |-> {}]

NoRows == [row \in 0..8 |-> <<>>]

\* any(not valid_numbers_by_row[i] for i in range(9))
AnyRowEmpty(byRow) == \E i \in 0..8 : byRow[i] = <<>>

-----------------------------------------------------------------------------
(* The state machine.                                                      *)

\* The members of the set S of integers of lo..hi, greatest first.
RECURSIVE Descending(_, _, _)
Descending(S, lo, hi) ==
    IF S = {} THEN <<>>
    ELSE IF lo = hi THEN <<lo>>
    ELSE LET mid == (lo + hi) \div 2
         IN Descending({x \in S : x > mid}, mid + 1, hi)
            \o Descending({x \in S : x <= mid}, lo, mid)

\* The keys of divisor_counts are positive and below 10^9.
KeysDescending(counts) == Descending(DOMAIN counts, 1, 999999999)

\* sorted(divisor_counts.items(), reverse=True): the <<divisor, count>> pairs,
\* greatest pair first; pairs compare by divisor first, and no two pairs of a
\* dict have the same divisor.
sorted_reverse(counts) ==
    LET keys == KeysDescending(counts)
    IN [i \in 1..Len(keys) |-> <<keys[i], counts[keys[i]]>>]

\* The test with > in place of >=.
qualifies_above(count) == count > 9

\* main's test on a divisor's count.
qualifies(count) == count >= 9

\* The pool without the entries whose places are in drops.
Pool(drops) == {PoolSeq[i] : i \in (1..PoolSize) \ drops}

NoRun == [items |-> <<>>, analysed |-> <<>>, result |-> <<>>, found |-> FALSE]

SearchIdle ==
    /\ valid_numbers_by_row = NoRows
    /\ grid = <<>>
    /\ used_numbers = {}
    /\ column_sets = EmptySets
    /\ box_sets = EmptySets
    /\ frames = <<>>
    /\ result = <<>>
    /\ saved = <<>>
    /\ undone = <<>>

\* main after parse_args, generate_symbols and generate_permutations: the
\* pool, or the pool less one entry, in the order some iteration order gives.
Init ==
    /\ \E excluded_digit \in ExcludedChoices, o \in 1..NOrders, drop \in 0..PoolSize :
          /\ symbols = generate_symbols(excluded_digit)
          /\ numbers = generate_permutations(SymbolOrders[o], symbols, Pool({drop}))
    /\ divisor_counts = EmptyDict
    /\ num_idx = 0
    /\ sorted_items = <<>>
    /\ item_idx = 0
    /\ divisible_numbers = <<>>
    /\ SearchIdle
    /\ pc = "count"
    /\ analysed = <<>>
    /\ run = 1
    /\ first_run = NoRun

\* build_divisor_counts: one turn of its loop over numbers.
CountDivisors ==
    /\ pc = "count"
    /\ num_idx < Len(numbers)
    /\ divisor_counts' = count_divisors(numbers[num_idx + 1], divisor_counts)
    /\ num_idx' = num_idx + 1
    /\ UNCHANGED <<symbols, numbers, sorted_items, item_idx, divisible_numbers,
                   valid_numbers_by_row, grid, used_numbers, column_sets,
                   box_sets, frames, result, pc, analysed, saved, undone, run,
                   first_run>>

\* main: build_divisor_counts has returned; the for loop's iterable is built.
MainSort ==
    /\ pc = "count"
    /\ num_idx = Len(numbers)
    /\ sorted_items' = sorted_reverse(divisor_counts)
    /\ item_idx' = 1
    /\ pc' = "loop"
    /\ UNCHANGED <<symbols, numbers, divisor_counts, num_idx, divisible_numbers,
                   valid_numbers_by_row, grid, used_numbers, column_sets,
                   box_sets, frames, result, analysed, saved, undone, run,
                   first_run>>

AtItem == pc = "loop" /\ item_idx <= Len(sorted_items)

Divisor == sorted_items[item_idx][1]

Count == sorted_items[item_idx][2]

\* main: a divisor whose count is below 9 is passed over.
MainSkip ==
    /\ AtItem
    /\ ~qualifies(Count)
    /\ item_idx' = item_idx + 1
    /\ UNCHANGED <<symbols, numbers, divisor_counts, num_idx, sorted_items,
                   divisible_numbers, valid_numbers_by_row, grid, used_numbers,
                   column_sets, box_sets, frames, result, pc, analysed, saved,
                   undone, run, first_run>>

\* analyze_divisor: some position lacks a digit; returns False.
AnalyzeIncomplete ==
    /\ AtItem
    /\ qualifies(Count)
    /\ LET divisible == find_numbers_with_divisor(numbers, Divisor)
       IN /\ ~all_positions_complete(divisible, symbols)
          /\ divisible_numbers' = divisible
    /\ analysed' = Append(analysed, Divisor)
    /\ item_idx' = item_idx + 1
    /\ valid_numbers_by_row' = NoRows
    /\ grid' = <<>>
    /\ result' = <<>>
    /\ UNCHANGED <<symbols, numbers, divisor_counts, num_idx, sorted_items,
                   used_numbers, column_sets, box_sets, frames, pc, saved,
                   undone, run, first_run>>

\* analyze_divisor calls try_build_sudoku_grid, which returns None at once:
\* some row has no eligible string.  analyze_divisor returns False.
AnalyzeEarlyExit ==
    /\ AtItem
    /\ qualifies(Count)
    /\ LET divisible == find_numbers_with_divisor(numbers, Divisor)
           byRow == categorize_numbers_by_row(divisible)
       IN /\ all_positions_complete(divisible, symbols)
          /\ AnyRowEmpty(byRow)
          /\ divisible_numbers' = divisible
          /\ valid_numbers_by_row' = byRow
    /\ analysed' = Append(analysed, Divisor)
    /\ item_idx' = item_idx + 1
    /\ grid' = <<>>
    /\ result' = <<>>
    /\ UNCHANGED <<symbols, numbers, divisor_counts, num_idx, sorted_items,
                   used_numbers, column_sets, box_sets, frames, pc, saved,
                   undone, run, first_run>>

\* analyze_divisor calls try_build_sudoku_grid, which calls backtrack([], set()).
AnalyzeSearch ==
    /\ AtItem
    /\ qualifies(Count)
    /\ LET divisible == find_numbers_with_divisor(numbers, Divisor)
           byRow == categorize_numbers_by_row(divisible)
       IN /\ all_positions_complete(divisible, symbols)
          /\ ~AnyRowEmpty(byRow)
          /\ divisible_numbers' = divisible
          /\ valid_numbers_by_row' = byRow
    /\ analysed' = Append(analysed, Divisor)
    /\ grid' = <<>>
    /\ used_numbers' = {}
    /\ column_sets' = EmptySets
    /\ box_sets' = EmptySets
    /\ frames' = <<1>>
    /\ result' = <<>>
    /\ saved' = <<>>
    /\ undone' = <<>>
    /\ pc' = "bt"
    /\ UNCHANGED <<symbols, numbers, divisor_counts, num_idx, sorted_items,
                   item_idx, run, first_run>>

\* try_build_sudoku_grid called on its own with a list of strings: the early
\* exit.
TryBuildEarlyExit ==
    /\ pc = "try_build"
    /\ LET byRow == categorize_numbers_by_row(divisible_numbers)
       IN /\ AnyRowEmpty(byRow)
          /\ valid_numbers_by_row' = byRow
    /\ result' = <<>>
    /\ pc' = "built"
    /\ UNCHANGED <<symbols, numbers, divisor_counts, num_idx, sorted_items,
                   item_idx, divisible_numbers, grid, used_numbers, column_sets,
                   box_sets, frames, analysed, saved, undone, run, first_run>>

\* try_build_sudoku_grid called on its own: backtrack([], set()) is entered.
TryBuildSearch ==
    /\ pc = "try_build"
    /\ LET byRow == categorize_numbers_by_row(divisible_numbers)
       IN /\ ~AnyRowEmpty(byRow)
          /\ valid_numbers_by_row' = byRow
    /\ frames' = <<1>>
    /\ pc' = "bt"
    /\ UNCHANGED <<symbols, numbers, divisor_counts, num_idx, sorted_items,
                   item_idx, divisible_numbers, grid, used_numbers, column_sets,
                   box_sets, result, analysed, saved, undone, run, first_run>>

\* The innermost active call of backtrack: its row and its loop's candidate.
RowIdx == Len(grid)

LoopPos == frames[Len(frames)]

Searching == pc = "bt" /\ Len(grid) < 9

HasCandidate == Searching /\ LoopPos <= Len(valid_numbers_by_row[RowIdx])

Candidate == valid_numbers_by_row[RowIdx][LoopPos]

Snapshot == <<grid, used_numbers, column_sets, box_sets>>

\* backtrack: len(grid) == 9, the grid is returned through every caller.
BtComplete ==
    /\ pc = "bt"
    /\ Len(grid) = 9
    /\ result' = <<grid>>
    /\ frames' = <<>>
    /\ undone' = <<>>
    /\ pc' = "built"
    /\ UNCHANGED <<symbols, numbers, divisor_counts, num_idx, sorted_items,
                   item_idx, divisible_numbers, valid_numbers_by_row, grid,
                   used_numbers, column_sets, box_sets, analysed, saved, run,
                   first_run>>

\* backtrack: the candidate is already used, or a digit of it is in its
\* column's or its box's set: continue.
BtSkip ==
    /\ HasCandidate
    /\ IF Candidate \in used_numbers THEN TRUE
       ELSE ~is_valid(Candidate, RowIdx, column_sets, box_sets)
    /\ frames' = [frames EXCEPT ![Len(frames)] = @ + 1]
    /\ undone' = <<>>
    /\ UNCHANGED <<symbols, numbers, divisor_counts, num_idx, sorted_items,
                   item_idx, divisible_numbers, valid_numbers_by_row, grid,
                   used_numbers, column_sets, box_sets, result, pc, analysed,
                   saved, run, first_run>>

\* backtrack: the candidate is appended and the recursive call is entered.
BtCommit ==
    /\ HasCandidate
    /\ Candidate \notin used_numbers
    /\ is_valid(Candidate, RowIdx, column_sets, box_sets)
    /\ grid' = Append(grid, Candidate)
    /\ used_numbers' = used_numbers \cup {Candidate}
    /\ column_sets' = add_to_columns(Candidate, column_sets)
    /\ box_sets' = add_to_boxes(Candidate, RowIdx, box_sets)
    /\ frames' = Append(frames, 1)
    /\ saved' = Append(saved, Snapshot)
    /\ undone' = <<>>
    /\ UNCHANGED <<symbols, numbers, divisor_counts, num_idx, sorted_items,
                   item_idx, divisible_numbers, valid_numbers_by_row, result,
                   pc, analysed, run, first_run>>

\* backtrack: the innermost call's loop ends and it returns None; its caller
\* removes the candidate it had placed and moves to its next one.  (The digits
\* of a permutation are distinct, so each set.remove finds its digit.)
BtBacktrack ==
    /\ Searching
    /\ LoopPos > Len(valid_numbers_by_row[RowIdx])
    /\ Len(frames) > 1
    /\ LET row_idx == Len(grid) - 1
           num == valid_numbers_by_row[row_idx][frames[Len(frames) - 1]]
       IN /\ grid' = SubSeq(grid, 1, Len(grid) - 1)
          /\ used_numbers' = used_numbers \ {num}
          /\ column_sets' = remove_from_columns(num, column_sets)
          /\ box_sets' = remove_from_boxes(num, row_idx, box_sets)
    /\ frames' = [SubSeq(frames, 1, Len(frames) - 1)
                    EXCEPT ![Len(frames) - 1] = @ + 1]
    /\ undone' = <<saved[Len(saved)]>>
    /\ saved' = SubSeq(saved, 1, Len(saved) - 1)
    /\ UNCHANGED <<symbols, numbers, divisor_counts, num_idx, sorted_items,
                   item_idx, divisible_numbers, valid_numbers_by_row, result,
                   pc, analysed, run, first_run>>

\* backtrack: the outermost call's loop ends; try_build_sudoku_grid returns
\* None.
BtFail ==
    /\ Searching
    /\ LoopPos > Len(valid_numbers_by_row[RowIdx])
    /\ Len(frames) = 1
    /\ result' = <<>>
    /\ frames' = <<>>
    /\ undone' = <<>>
    /\ pc' = "built"
    /\ UNCHANGED <<symbols, numbers, divisor_counts, num_idx, sorted_items,
                   item_idx, divisible_numbers, valid_numbers_by_row, grid,
                   used_numbers, column_sets, box_sets, analysed, saved, run,
                   first_run>>

\* analyze_divisor after try_build_sudoku_grid's search: True and main's
\* break when there is a grid, False and main's next divisor otherwise.
AnalyzeReturn ==
    /\ pc = "built"
    /\ pc' = IF result # <<>> THEN "done" ELSE "loop"
    /\ item_idx' = IF result # <<>> THEN item_idx ELSE item_idx + 1
    /\ UNCHANGED <<symbols, numbers, divisor_counts, num_idx, sorted_items,
                   divisible_numbers, valid_numbers_by_row, grid, used_numbers,
                   column_sets, box_sets, frames, result, analysed, saved,
                   undone, run, first_run>>

\* main: the for loop is exhausted.
MainEnd ==
    /\ pc = "loop"
    /\ item_idx > Len(sorted_items)
    /\ pc' = "done"
    /\ UNCHANGED <<symbols, numbers, divisor_counts, num_idx, sorted_items,
                   item_idx, divisible_numbers, valid_numbers_by_row, grid,
                   used_numbers, column_sets, box_sets, frames, result,
                   analysed, saved, undone, run, first_run>>

Backtrack == BtComplete \/ BtSkip \/ BtCommit \/ BtBacktrack \/ BtFail

Next ==
    \/ CountDivisors
    \/ MainSort
    \/ MainSkip
    \/ AnalyzeIncomplete
    \/ AnalyzeEarlyExit
    \/ AnalyzeSearch
    \/ Backtrack
    \/ AnalyzeReturn
    \/ MainEnd

\* One execution of main.
Spec == Init /\ [][Next]_vars

\* try_build_sudoku_grid called with the strings of a candidate list, whether
\* or not the list passes analyze_divisor's test: the pool less at most two
\* entries.
InitGrid ==
    /\ \E excluded_digit \in ExcludedChoices, o \in 1..NOrders,
          drop1 \in 0..PoolSize, drop2 \in 0..PoolSize :
          /\ symbols = generate_symbols(excluded_digit)
          /\ numbers = generate_permutations(SymbolOrders[o], symbols,
                                             Pool({drop1, drop2}))
    /\ divisible_numbers = find_numbers_with_divisor(numbers, 1)
    /\ divisor_counts = EmptyDict
    /\ num_idx = 0
    /\ sorted_items = <<>>
    /\ item_idx = 0
    /\ SearchIdle
    /\ pc = "try_build"
    /\ analysed = <<>>
    /\ run = 1
    /\ first_run = NoRun

NextGrid == TryBuildEarlyExit \/ TryBuildSearch \/ Backtrack

SpecGrid == InitGrid /\ [][NextGrid]_vars

\* build_divisor_counts called with a short list of small positive integers.
SmallLists == UNION {[1..len -> 1..MaxN] : len \in 0..MaxLen}

InitDiv ==
    /\ numbers \in SmallLists
    /\ symbols = {}
    /\ divisor_counts = EmptyDict
    /\ num_idx = 0
    /\ sorted_items = <<>>
    /\ item_idx = 0
    /\ divisible_numbers = <<>>
    /\ SearchIdle
    /\ pc = "count"
    /\ analysed = <<>>
    /\ run = 1
    /\ first_run = NoRun

SpecDiv == InitDiv /\ [][CountDivisors]_vars

\* The outcome of an execution of main that has ended.
Outcome ==
    [items |-> sorted_items, analysed |-> analysed, result |-> result,
     found |-> (result # <<>>)]

\* main is executed again with the same excluded digit: the same permutations,
\* generated from whatever order the new process iterates the alphabet in.
Rerun ==
    /\ pc = "done"
    /\ run = 1
    /\ \E o \in 1..NOrders :
          numbers' = generate_permutations(SymbolOrders[o], symbols, Range(numbers))
    /\ first_run' = Outcome
    /\ run' = 2
    /\ divisor_counts' = EmptyDict
    /\ num_idx' = 0
    /\ sorted_items' = <<>>
    /\ item_idx' = 0
    /\ divisible_numbers' = <<>>
    /\ valid_numbers_by_row' = NoRows
    /\ grid' = <<>>
    /\ used_numbers' = {}
    /\ column_sets' = EmptySets
    /\ box_sets' = EmptySets
    /\ frames' = <<>>
    /\ result' = <<>>
    /\ saved' = <<>>
    /\ undone' = <<>>
    /\ pc' = "count"
    /\ analysed' = <<>>
    /\ UNCHANGED symbols

NextTwice == Next \/ Rerun

\* Two executions of main, one after the other.
SpecTwice == Init /\ [][NextTwice]_vars

-----------------------------------------------------------------------------
(* Divisor counting.                                                       *)

\* The numbers build_divisor_counts has counted so far.
CountedIdx == 1..num_idx

MaxCounted == IF num_idx = 0 THEN 0
              ELSE CHOOSE m \in {numbers[i] : i \in CountedIdx} :
                      \A i \in CountedIdx : numbers[i] <= m

DivisibleBy(d) == {i \in CountedIdx : numbers[i] % d = 0}

\* C8: after any number of candidates has been counted, the keys of the map
\* are exactly the integers that divide at least one counted candidate, and
\* the count of each key d is the number of counted candidates n with
\* n % d == 0 (a square root is counted once).
C8_ExactDivisorCounts ==
    /\ DOMAIN divisor_counts = {d \in 1..MaxCounted : DivisibleBy(d) # {}}
    /\ \A d \in DOMAIN divisor_counts :
          divisor_counts[d] = Cardinality(DivisibleBy(d))

\* The whole list is counted; it holds a perfect square whose root also
\* divides another candidate.
C8_Witness ==
    /\ pc = "count"
    /\ num_idx = Len(numbers)
    /\ \E i, j \in 1..Len(numbers) :
          /\ i # j
          /\ \E root \in 2..MaxN :
                /\ root * root = numbers[i]
                /\ numbers[j] % root = 0
                /\ root \in DOMAIN divisor_counts
                /\ divisor_counts[root] >= 2

-----------------------------------------------------------------------------
(* The grid assembler.                                                     *)

Returned == pc = "built" /\ result # <<>>

Infeasible == pc = "built" /\ result = <<>>

\* The digits of rows 0..Len(g)-1 of g in column col, and in the box of band
\* `band` and column third `third`.
ColumnCells(g, col) == {<<r, col>> : r \in 0..(Len(g) - 1)}

BoxCells(g, band, third) ==
    {<<r, c>> : r \in {q \in 0..(Len(g) - 1) : q \div 3 = band},
                c \in (3 * third)..(3 * third + 2)}

DistinctOn(g, cells) ==
    Cardinality({g[cell[1] + 1][cell[2] + 1] : cell \in cells}) = Cardinality(cells)

\* No column and no box of the (partial) grid g holds a digit twice.
DuplicateFree(g) ==
    /\ \A col \in 0..8 : DistinctOn(g, ColumnCells(g, col))
    /\ \A band \in 0..2, third \in 0..2 : DistinctOn(g, BoxCells(g, band, third))

\* C1: a returned grid has 9 rows, 9 distinct digits in every column and in
\* every 3x3 box, and every clued row has its clue's digit at the clue's
\* column.
C1_ReturnedGridValid ==
    Returned =>
        LET g == result[1]
        IN /\ Len(g) = 9
           /\ DuplicateFree(g)
           /\ \A col \in 0..8 : Cardinality({g[r][col + 1] : r \in 1..9}) = 9
           /\ \A r \in {0, 1, 2, 3, 5, 6, 7, 8} :
                 g[r + 1][get_row_constraints[r][1] + 1] = get_row_constraints[r][2]

\* A grid is returned after the search had to undo: it is not the grid of the
\* first candidate of every row.
C1_Witness ==
    /\ Returned
    /\ \E r \in 0..8 : result[1][r + 1] # valid_numbers_by_row[r][1]

\* The grids that take row r from row r's eligible list and are
\* duplicate-free, built row by row.
RECURSIVE GridsOfRows(_, _)
GridsOfRows(byRow, n) ==
    IF n = 0 THEN {<<>>}
    ELSE {g \in {Append(h, byRow[n - 1][i]) :
                    h \in GridsOfRows(byRow, n - 1), i \in 1..Len(byRow[n - 1])} :
             DuplicateFree(g)}

\* C4: try_build_sudoku_grid returns a grid exactly when some choice of one
\* eligible candidate per row is duplicate-free in every column and box, and
\* None exactly when there is none.
C4_Complete ==
    pc = "built" => ((result # <<>>) <=> (GridsOfRows(valid_numbers_by_row, 9) # {}))

\* Every row has eligible candidates and six rows can be filled, but no
\* grid exists: the search ran and reported infeasibility.
C4_Witness ==
    /\ Infeasible
    /\ ~AnyRowEmpty(valid_numbers_by_row)
    /\ GridsOfRows(valid_numbers_by_row, 6) # {}

\* C5: right after an undo, the partial grid, the used set, the column sets
\* and the box sets are what they were before the undone candidate was
\* committed.
C5_UndoRestores ==
    undone # <<>> => <<grid, used_numbers, column_sets, box_sets>> = undone[1]

\* An undo at depth 5 or deeper, leaving five rows in place.
C5_Witness ==
    /\ undone # <<>>
    /\ Len(grid) >= 5
    /\ saved # <<>>

\* The positional coverage test of analyze_divisor on the list the assembler
\* was given.
Covered ==
    \A pos \in 0..8 :
        Cardinality(check_digit_positions(divisible_numbers, symbols)[pos])
            = Cardinality(symbols)

\* C9: when the assembler returns a grid from a list, every position's
\* observed digit set has the alphabet's size; a list that fails the coverage
\* test yields no grid, so skipping it discards nothing.
C9_CoverageNecessary ==
    /\ Returned => Covered
    /\ (pc = "built" /\ ~Covered) => result = <<>>

\* A grid is returned from a list that lacks two entries of the pool.
C9_Witness ==
    /\ Returned
    /\ Covered
    /\ Len(divisible_numbers) = PoolSize - 2

\* C10: the eligible lists of two rows share no string, and the candidate
\* the search is about to try is never in the used set.
C10_NeverUsed ==
    /\ \A r1, r2 \in 0..8 :
          r1 # r2 =>
            Range(valid_numbers_by_row[r1]) \cap Range(valid_numbers_by_row[r2]) = {}
    /\ HasCandidate => Candidate \notin used_numbers

\* A candidate is tried for row 4 with four strings in the used set.
C10_Witness ==
    /\ HasCandidate
    /\ RowIdx = 4
    /\ Cardinality(used_numbers) = 4
    /\ LoopPos >= 2

\* The clued rows whose positional clue the string matches.
MatchedRows(num) == {r \in 0..8 : MatchesClue(num, get_row_constraints, r)}

Categorized == pc \in {"bt", "built"}

InSomeList(num) == \E r \in 0..8 : num \in Range(valid_numbers_by_row[r])

\* C2: a candidate that matches the positional clue of two or more clued rows
\* gets None from find_valid_row_for_number and is in no row's eligible list.
C2_AmbiguousExcluded ==
    Categorized =>
        \A i \in 1..Len(divisible_numbers) :
            Cardinality(MatchedRows(divisible_numbers[i])) >= 2 =>
                /\ find_valid_row_for_number(divisible_numbers[i], get_row_constraints) = <<>>
                /\ ~InSomeList(divisible_numbers[i])

\* C3: a candidate is eligible for row 4 exactly when it matches the
\* positional clue of no clued row and passes row 4's box check.
C3_RowFourOnlyUnclued ==
    Categorized =>
        \A i \in 1..Len(divisible_numbers) :
            LET num == divisible_numbers[i]
            IN (num \in Range(valid_numbers_by_row[4]))
                  <=> (MatchedRows(num) = {} /\ check_box_constraints(num, 4))

-----------------------------------------------------------------------------
(* main's loop.                                                            *)

\* Each element exceeds the next one, hence every later one.
StrictlyDescending(s) == \A i \in 1..(Len(s) - 1) : s[i] > s[i + 1]

\* The divisors counted at least 9 times.
AtLeastNine == {d \in DOMAIN divisor_counts : divisor_counts[d] >= 9}

Counting == pc = "count"

\* C6: the loop visits every divisor of the map in strictly descending order;
\* the divisors analysed are, in descending order and without a gap, those
\* counted at least 9 times; once the assembler has returned a grid nothing
\* more is analysed; a run that ends without a grid has analysed every divisor
\* counted at least 9 times, once.
C6_DescendingUntilSuccess ==
    /\ ~Counting =>
          /\ StrictlyDescending([i \in 1..Len(sorted_items) |-> sorted_items[i][1]])
          /\ {sorted_items[i] : i \in 1..Len(sorted_items)}
                = {<<d, divisor_counts[d]>> : d \in DOMAIN divisor_counts}
    /\ StrictlyDescending(analysed)
    /\ Range(analysed) \subseteq AtLeastNine
    /\ analysed # <<>> =>
          \A d \in AtLeastNine : d > analysed[Len(analysed)] => d \in Range(analysed)
    /\ result # <<>> => pc \in {"built", "done"}
    /\ (pc = "done" /\ result = <<>>) => Range(analysed) = AtLeastNine

\* The run ends with a grid at the second divisor analysed, and a smaller
\* divisor counted at least 9 times is left unanalysed.
C6_Witness ==
    /\ pc = "done"
    /\ result # <<>>
    /\ Len(analysed) = 2
    /\ \E d \in AtLeastNine : d < analysed[2]

SameButGrid ==
    (run = 2 /\ pc = "done") =>
        /\ sorted_items = first_run.items
        /\ analysed = first_run.analysed
        /\ (result # <<>>) = first_run.found

====
